---- MODULE Spec2Model ----
(***************************************************************************)
(* Model of src/sandbox/manager.py: the SandboxManager that keeps one      *)
(* sandbox session per workspace, runs code in it (or in a subprocess when *)
(* no sandbox exists), and reaps idle sessions in a background task.       *)
(*                                                                         *)
(* Scheduling.  Every public method is a coroutine run by one asyncio      *)
(* event loop.  A coroutine keeps the loop until it awaits something that  *)
(* really suspends; `await self.get_or_create_session(..)` and             *)
(* `await self._close_session(..)` run in the caller's turn, and           *)
(* session.run / subprocess.run / __exit__ are blocking calls.  The only   *)
(* suspension point of the file is `await asyncio.sleep(60)` (line 86).    *)
(* The model keeps the statements of a handler as separate steps and a     *)
(* variable `current` for the task that holds the loop; Suspends says at   *)
(* which statements a task gives the loop back.                            *)
(***************************************************************************)
EXTENDS Integers, Sequences, FiniteSets, TLC

VARIABLES
    LLM_SANDBOX_AVAILABLE, \* module flag set at import (lines 23-28)
    now,                   \* time.time()
    ticks,                 \* how often the clock has advanced
    sessions,              \* SandboxManager.sessions: workspace id -> session object (0: absent)
    heap,                  \* the WorkspaceSession objects ever constructed
    handles,               \* the InteractiveSandboxSession objects ever constructed
    cleanup_task,          \* SandboxManager._cleanup_task (0: None)
    reapers,               \* the tasks running _cleanup_loop
    task,                  \* the request tasks: position, arguments, locals, result
    last,                  \* per workspace id, the last operation completed on it
    current                \* task holding the event loop: 0 none, t > 0 request, -r reaper

vars == <<LLM_SANDBOX_AVAILABLE, now, ticks, sessions, heap, handles,
          cleanup_task, reapers, task, last, current>>

----------------------------------------------------------------------------
(* Bounds of the model *)

IDLE_TIMEOUT == 30 * 60  \* line 32

MaxCalls == 3
MaxPending == 2
MaxTicks == 1
MaxStarts == 2

Workspaces == {"ws1", "ws2"}
ClockSteps == {IDLE_TIMEOUT, IDLE_TIMEOUT + 1}
Tasks == 1..MaxCalls

----------------------------------------------------------------------------
(* Configuration, lines 31-42 *)

EXECUTION_TIMEOUT == 60
CLEANUP_INTERVAL == 60
DEFAULT_LIBRARIES ==
    <<"pandas", "numpy", "matplotlib", "pypdf", "pdfplumber", "openpyxl", "requests">>

\* the (code, timeout) arguments of the execute calls
Inputs == {[code |-> "print(1)", timeout |-> 1],
           [code |-> "print(2)", timeout |-> EXECUTION_TIMEOUT]}

----------------------------------------------------------------------------
(* Python values *)

PyNone == [type |-> "NoneType", val |-> ""]
PyStr(s) == [type |-> "str", val |-> s]

\* `x or ""` of lines 199-200
OrEmpty(x) == IF x.type = "NoneType" \/ x.val = "" THEN PyStr("") ELSE x

Digit(d) ==
    CASE d = 0 -> "0" [] d = 1 -> "1" [] d = 2 -> "2" [] d = 3 -> "3" [] d = 4 -> "4"
      [] d = 5 -> "5" [] d = 6 -> "6" [] d = 7 -> "7" [] d = 8 -> "8" [] d = 9 -> "9"

RECURSIVE IntToStr(_)
\* str(int) of a non-negative integer, as the f-string of line 182 formats it
IntToStr(n) == IF n < 10 THEN Digit(n) ELSE IntToStr(n \div 10) \o Digit(n % 10)

\* f"Execution timed out after {timeout} seconds", line 182
TimedOutMessage(timeout) ==
    "Execution timed out after " \o IntToStr(timeout) \o " seconds"

\* what the interpreter prints for a piece of code
Output(code) == IF code = "print(1)" THEN "1\n" ELSE "2\n"

----------------------------------------------------------------------------
(* What the collaborators outside the file can do *)

\* InteractiveSandboxSession(...) followed by __enter__(), lines 120-126
ProvisionOutcomes == {"entered", "constructor_raises", "enter_raises"}

\* one library of the warm-up loop, lines 130-134: the import works, or it
\* raises and the pip install works, or both raise
WarmupOutcomes == {"imported", "installed", "install_raises"}

\* session.__exit__(None, None, None), line 102
CloseOutcomes == {"closed", "exit_raises"}

NoException == [type |-> "", msg |-> ""]

\* session.run(code, timeout=timeout), line 194: a result object, or an exception
\* whose text is the library's
SandboxOutcomes(code, timeout) ==
    {[kind |-> "result", exit_code |-> 0, stdout |-> PyStr(Output(code)),
      stderr |-> PyNone, images |-> <<>>, images_none |-> TRUE, exc |-> NoException],
     [kind |-> "result", exit_code |-> 0, stdout |-> PyStr(Output(code)),
      stderr |-> PyStr(""), images |-> <<"png">>, images_none |-> FALSE, exc |-> NoException],
     [kind |-> "result", exit_code |-> 1, stdout |-> PyNone,
      stderr |-> PyStr("NameError"), images |-> <<>>, images_none |-> FALSE, exc |-> NoException]}
    \cup
    {[kind |-> "raise", exit_code |-> 0, stdout |-> PyNone, stderr |-> PyNone,
      images |-> <<>>, images_none |-> TRUE, exc |-> e] :
        e \in {[type |-> "SandboxTimeoutError", msg |-> TimedOutMessage(timeout)],
               [type |-> "SandboxTimeoutError", msg |-> "Operation timed out"],
               [type |-> "RuntimeError", msg |-> "container is not running"]}}

\* subprocess.run([...], capture_output=True, text=True, timeout=timeout), lines 165-171
SubprocessOutcomes(code, timeout) ==
    {[kind |-> "result", exit_code |-> 0, stdout |-> PyStr(Output(code)),
      stderr |-> PyStr(""), images |-> <<>>, images_none |-> TRUE, exc |-> NoException],
     [kind |-> "result", exit_code |-> 1, stdout |-> PyStr(""),
      stderr |-> PyStr("NameError"), images |-> <<>>, images_none |-> TRUE, exc |-> NoException]}
    \cup
    {[kind |-> "raise", exit_code |-> 0, stdout |-> PyNone, stderr |-> PyNone,
      images |-> <<>>, images_none |-> TRUE, exc |-> e] :
        e \in {[type |-> "TimeoutExpired", msg |-> "Command timed out"],
               [type |-> "OSError", msg |-> "No such file or directory"]}}

\* whether an outcome is the run exceeding its timeout
IsTimeout(o) == o.kind = "raise" /\ o.exc.type \in {"TimeoutExpired", "SandboxTimeoutError"}

----------------------------------------------------------------------------
(* WorkspaceSession, lines 45-57 *)

\* WorkspaceSession(workspace_id=..): session None, both timestamps time.time()
NewWorkspaceSession(workspace_id) ==
    [workspace_id |-> workspace_id, session |-> 0, created_at |-> now, last_used |-> now]

\* variants: the threshold taken one reaper interval too long; a session that
\* has been idle for exactly the threshold counted as expired
is_expired_late(ws) == now - ws.last_used > IDLE_TIMEOUT + CLEANUP_INTERVAL
is_expired_at_threshold(ws) == now - ws.last_used >= IDLE_TIMEOUT

is_expired(ws) == now - ws.last_used > IDLE_TIMEOUT

touch(ws) == [ws EXCEPT !.last_used = now]

\* an InteractiveSandboxSession object after __enter__: open, never closed, idle
NewHandle == [state |-> "open", exits |-> 0, busy |-> {}, code |-> ""]

----------------------------------------------------------------------------
(* The event loop *)

\* variants: the warm-up runs, or the run of the submitted code, awaited
SuspendsInWarmup(label) == label = "warmup"
SuspendsInRun(label) == label = "run"

\* the statements at which a request handler gives the loop back to the
\* scheduler: none, no statement of lines 106-220 awaits a pending future
Suspends(label) == FALSE

\* a task can take a step when it holds the loop or the loop is free
Runnable(id) == current = id \/ current = 0

\* who holds the loop after task id has moved to statement label
Holder(id, label) == IF Suspends(label) THEN 0 ELSE id

----------------------------------------------------------------------------
(* Request tasks *)

Ops == {"execute", "destroy_session", "start", "stop"}

NoResult == [success |-> FALSE, stdout |-> PyNone, stderr |-> PyNone, artifacts |-> <<>>]

\* a task that has not been created, and one whose response has been sent
BlankTask(label) ==
    [pc |-> label, op |-> "", workspace_id |-> "", code |-> "", timeout |-> 0,
     ws |-> 0, i |-> 0, todo |-> {}, result |-> NoResult, raised |-> "",
     \* history of the call, read by the properties only
     unseen |-> FALSE, found |-> 0, found_session |-> 0, provisioned |-> FALSE,
     prov_failed |-> FALSE, path |-> "", handle |-> 0, handle_closed |-> FALSE,
     warm_failed |-> FALSE, timed_out |-> FALSE, held |-> {},
     close_raised |-> {}, completed |-> 0,
     prev |-> [op |-> "", sid |-> 0, session |-> 0, failed |-> FALSE]]

\* no operation yet on a workspace id
NoOp == [op |-> "", sid |-> 0, session |-> 0, failed |-> FALSE]

\* first statement of each method
Entry(op) ==
    CASE op = "execute" -> "goc"
      [] op = "destroy_session" -> "destroy"
      [] op = "start" -> "start"
      [] op = "stop" -> "stop"

\* where get_or_create_session returns to: line 153, its call is line 151
AfterGoc(op) == "route"

\* variants: the lookup never finds a session; it skips a session without sandbox
InSessionsNever(workspace_id) == FALSE
InSessionsWithSandbox(workspace_id) ==
    sessions[workspace_id] # 0 /\ heap[sessions[workspace_id]].session # 0

\* `workspace_id in self.sessions`, line 108
InSessions(workspace_id) == sessions[workspace_id] # 0

\* variant: the sandbox of a session is never looked at
HasSessionNever(ws) == FALSE

\* `if ws.session`, line 100, and `not ws.session`, line 153
HasSession(ws) == ws.session # 0

\* variant: the fallback without the handler of line 185
FallbackCatchesTimeoutOnly(e) == e.type = "TimeoutExpired"

\* variant: _close_session without the handler of line 103
CloseCatchesNothing(e) == FALSE

\* the `except Exception` clauses: lines 137, 185, 206 and 103
ProvisionCatches(e) == TRUE
FallbackCatches(e) == TRUE
SandboxCatches(e) == TRUE
CloseCatches(e) == TRUE

\* lines 197-205
SandboxResult(o) ==
    [success |-> o.exit_code = 0,
     stdout |-> OrEmpty(o.stdout),
     stderr |-> OrEmpty(o.stderr),
     artifacts |-> IF o.images_none THEN <<>>
                   ELSE [k \in 1..Len(o.images) |-> [type |-> "image", data |-> o.images[k]]]]

\* lines 208-213
SandboxFailure(e, timeout) ==
    [success |-> FALSE, stdout |-> PyStr(""), stderr |-> PyStr(e.msg), artifacts |-> <<>>]

\* lines 172-177
FallbackResult(o) ==
    [success |-> o.exit_code = 0, stdout |-> o.stdout, stderr |-> o.stderr,
     artifacts |-> <<>>]

\* lines 178-191: TimeoutExpired gets the fixed message, any other exception its text
FallbackFailure(e, timeout) ==
    [success |-> FALSE, stdout |-> PyStr(""),
     stderr |-> IF e.type = "TimeoutExpired" THEN PyStr(TimedOutMessage(timeout))
                ELSE PyStr(e.msg),
     artifacts |-> <<>>]

\* _close_session, lines 98-104, on session object sid: the handles afterwards
CloseSession(sid) ==
    IF HasSession(heap[sid])
    THEN [handles EXCEPT ![heap[sid].session].state = "closed",
                         ![heap[sid].session].exits = @ + 1]
    ELSE handles

\* the request handlers awaited by the event loop, each created by a call
Spawn(t, op, workspace_id) ==
    /\ current = 0
    /\ task[t].pc = "idle"
    /\ \A u \in Tasks : u < t => task[u].pc # "idle"
    /\ Cardinality({u \in Tasks : task[u].pc \notin {"idle", "finished"}}) < MaxPending
    /\ op \in {"start", "stop"} => workspace_id = ""
    /\ op \notin {"start", "stop"} => workspace_id \in Workspaces
    /\ op = "start" =>
         Len(reapers) + Cardinality({u \in Tasks : task[u].pc = "start"}) < MaxStarts
    /\ task' = [task EXCEPT ![t] =
                  [BlankTask(Entry(op)) EXCEPT !.op = op,
                                              !.workspace_id = workspace_id,
                                              !.unseen = workspace_id \in Workspaces
                                                         /\ ~InSessions(workspace_id)]]
    /\ UNCHANGED <<last, LLM_SANDBOX_AVAILABLE, now, ticks, sessions, heap, handles,
                   cleanup_task, reapers, current>>

\* get_or_create_session, lines 108-116: the lookup, then touch or construct
GetOrCreateLookup(t) ==
    LET me == task[t]
        w == me.workspace_id
        args == [me EXCEPT !.prev = last[w],
                           !.found = sessions[w],
                           !.found_session = IF sessions[w] # 0
                                             THEN heap[sessions[w]].session ELSE 0]
    IN
    /\ me.pc = "goc"
    /\ Runnable(t)
    /\ IF InSessions(w)
       THEN /\ heap' = [heap EXCEPT ![sessions[w]] = touch(@)]
            /\ task' = [task EXCEPT ![t] =
                          [args EXCEPT !.ws = sessions[w], !.pc = AfterGoc(me.op)]]
            /\ current' = Holder(t, AfterGoc(me.op))
       ELSE LET next == IF LLM_SANDBOX_AVAILABLE THEN "provision" ELSE "register" IN
            /\ heap' = Append(heap, NewWorkspaceSession(w))
            /\ task' = [task EXCEPT ![t] =
                          [args EXCEPT !.ws = Len(heap) + 1, !.pc = next]]
            /\ current' = Holder(t, next)
    /\ UNCHANGED <<last, LLM_SANDBOX_AVAILABLE, now, ticks, sessions, handles,
                   cleanup_task, reapers>>

\* lines 119-126 with the handler of lines 137-139.  A sandbox object whose
\* __enter__ raised is dropped at line 139 and not kept in `handles`
Provision(t, o) ==
    LET me == task[t]
        h == Len(handles) + 1
        e == [type |-> "Exception", msg |-> o]
    IN
    /\ me.pc = "provision"
    /\ Runnable(t)
    /\ UNCHANGED <<last, LLM_SANDBOX_AVAILABLE, now, ticks, sessions, cleanup_task, reapers>>
    /\ CASE o = "entered" ->
              /\ handles' = Append(handles, NewHandle)
              /\ heap' = [heap EXCEPT ![me.ws].session = h]
              /\ task' = [task EXCEPT ![t].pc = "warmup", ![t].i = 1,
                                      ![t].provisioned = TRUE]
              /\ current' = Holder(t, "warmup")
         [] o \in {"constructor_raises", "enter_raises"} /\ ProvisionCatches(e) ->
              /\ handles' = handles
              /\ heap' = [heap EXCEPT ![me.ws].session = 0]
              /\ task' = [task EXCEPT ![t].pc = "register", ![t].provisioned = TRUE,
                                      ![t].prov_failed = TRUE]
              /\ current' = Holder(t, "register")
         [] OTHER ->
              /\ handles' = handles
              /\ heap' = heap
              /\ task' = [task EXCEPT ![t].pc = "done", ![t].raised = e.type,
                                      ![t].provisioned = TRUE, ![t].prov_failed = TRUE]
              /\ current' = t

\* one library of the warm-up loop, lines 129-134; a failed install is caught
\* at line 137 and line 139 drops the handle
Warmup(t, o) ==
    LET me == task[t]
        e == [type |-> "Exception", msg |-> o]
        next == IF me.i = Len(DEFAULT_LIBRARIES) THEN "register" ELSE "warmup"
    IN
    /\ me.pc = "warmup"
    /\ Runnable(t)
    /\ UNCHANGED <<last, LLM_SANDBOX_AVAILABLE, now, ticks, sessions, handles,
                   cleanup_task, reapers>>
    /\ CASE o \in {"imported", "installed"} ->
              /\ heap' = heap
              /\ task' = [task EXCEPT ![t].pc = next,
                                      ![t].i = IF next = "warmup" THEN me.i + 1 ELSE 0]
              /\ current' = Holder(t, next)
         [] o = "install_raises" /\ ProvisionCatches(e) ->
              /\ heap' = [heap EXCEPT ![me.ws].session = 0]
              /\ task' = [task EXCEPT ![t].pc = "register", ![t].i = 0,
                                      ![t].warm_failed = TRUE]
              /\ current' = Holder(t, "register")
         [] OTHER ->
              /\ heap' = heap
              /\ task' = [task EXCEPT ![t].pc = "done", ![t].raised = e.type,
                                      ![t].warm_failed = TRUE]
              /\ current' = t

\* lines 141-142
Register(t) ==
    LET me == task[t] IN
    /\ me.pc = "register"
    /\ Runnable(t)
    /\ sessions' = [sessions EXCEPT ![me.workspace_id] = me.ws]
    /\ task' = [task EXCEPT ![t].pc = AfterGoc(me.op)]
    /\ current' = Holder(t, AfterGoc(me.op))
    /\ UNCHANGED <<last, LLM_SANDBOX_AVAILABLE, now, ticks, heap, handles,
                   cleanup_task, reapers>>

\* execute, line 153: the subprocess fallback without a sandbox, else line 194
\* hands the code to the sandbox, which is busy with it until the call returns.
\* The arguments code and timeout are first read here
Route(t, code, timeout) ==
    LET me == [task[t] EXCEPT !.code = code, !.timeout = timeout]
        h == heap[me.ws].session
    IN
    /\ me.pc = "route"
    /\ Runnable(t)
    /\ IF ~HasSession(heap[me.ws])
       THEN /\ task' = [task EXCEPT ![t] = [me EXCEPT !.pc = "fallback",
                                                       !.path = "fallback"]]
            /\ current' = Holder(t, "fallback")
            /\ handles' = handles
       ELSE /\ task' = [task EXCEPT ![t] =
                          [me EXCEPT !.pc = "run", !.path = "sandbox", !.handle = h,
                                     !.handle_closed = (handles[h].state = "closed")]]
            /\ current' = Holder(t, "run")
            /\ handles' = [handles EXCEPT ![h].busy = @ \cup {t}, ![h].code = me.code]
    /\ UNCHANGED <<last, LLM_SANDBOX_AVAILABLE, now, ticks, sessions, heap,
                   cleanup_task, reapers>>

\* lines 165-191: the subprocess ends
FallbackReturn(t, o) ==
    LET me == task[t] IN
    /\ me.pc = "fallback"
    /\ Runnable(t)
    /\ o \in SubprocessOutcomes(me.code, me.timeout)
    /\ task' = [task EXCEPT ![t] =
                  [me EXCEPT !.pc = "done",
                             !.timed_out = IsTimeout(o),
                             !.result = IF o.kind = "result" THEN FallbackResult(o)
                                        ELSE IF FallbackCatches(o.exc)
                                        THEN FallbackFailure(o.exc, me.timeout)
                                        ELSE NoResult,
                             !.raised = IF o.kind = "raise" /\ ~FallbackCatches(o.exc)
                                        THEN o.exc.type ELSE ""]]
    /\ current' = Holder(t, "done")
    /\ last' = [last EXCEPT ![me.workspace_id] =
                  [op |-> "execute", sid |-> me.ws, session |-> 0, failed |-> FALSE]]
    /\ UNCHANGED <<LLM_SANDBOX_AVAILABLE, now, ticks, sessions, heap, handles,
                   cleanup_task, reapers>>

\* lines 194-213: session.run returns what the sandbox made of the code it holds,
\* or raises; only a returned result touches the session (line 195)
SandboxReturn(t, o) ==
    LET me == task[t]
        h == me.handle
    IN
    /\ me.pc = "run"
    /\ Runnable(t)
    /\ o \in SandboxOutcomes(handles[h].code, me.timeout)
    /\ handles' = [handles EXCEPT ![h].busy = @ \ {t},
                                  ![h].code = IF handles[h].busy = {t} THEN "" ELSE @]
    /\ heap' = IF o.kind = "result" THEN [heap EXCEPT ![me.ws] = touch(@)] ELSE heap
    /\ task' = [task EXCEPT ![t] =
                  [me EXCEPT !.pc = "done",
                             !.completed = now,
                             !.timed_out = IsTimeout(o),
                             !.result = IF o.kind = "result" THEN SandboxResult(o)
                                        ELSE IF SandboxCatches(o.exc)
                                        THEN SandboxFailure(o.exc, me.timeout)
                                        ELSE NoResult,
                             !.raised = IF o.kind = "raise" /\ ~SandboxCatches(o.exc)
                                        THEN o.exc.type ELSE ""]]
    /\ current' = Holder(t, "done")
    /\ last' = [last EXCEPT ![me.workspace_id] =
                  [op |-> "execute", sid |-> me.ws, session |-> h,
                   failed |-> o.kind = "raise"]]
    /\ UNCHANGED <<LLM_SANDBOX_AVAILABLE, now, ticks, sessions, cleanup_task, reapers>>

\* variant: destroy_session without its membership test
IsRegisteredAlways(workspace_id) == TRUE

\* `workspace_id in self.sessions`, line 217
IsRegistered(workspace_id) == sessions[workspace_id] # 0

\* what `last` records when the session object sid has been removed by op
Removed(op, sid) ==
    [op |-> op, sid |-> sid, session |-> IF sid = 0 THEN 0 ELSE heap[sid].session,
     failed |-> FALSE]

\* the session objects on which __exit__ (line 102) has raised, when the outcome
\* of closing session object sid is o
ExitRaised(sid, o) ==
    IF sid # 0 /\ HasSession(heap[sid]) /\ o = "exit_raises" THEN {sid} ELSE {}

\* destroy_session, line 217
Destroy(t) ==
    LET me == task[t]
        next == IF IsRegistered(me.workspace_id) THEN "d_close" ELSE "done"
    IN
    /\ me.pc = "destroy"
    /\ Runnable(t)
    /\ task' = [task EXCEPT ![t].pc = next, ![t].found = sessions[me.workspace_id],
                            ![t].prev = last[me.workspace_id]]
    /\ current' = Holder(t, next)
    /\ last' = IF next = "done"
               THEN [last EXCEPT ![me.workspace_id] = Removed("destroy_session", 0)]
               ELSE last
    /\ UNCHANGED <<LLM_SANDBOX_AVAILABLE, now, ticks, sessions, heap, handles,
                   cleanup_task, reapers>>

\* line 218: self.sessions[workspace_id] is looked up and closed
DestroyClose(t, o) ==
    LET me == task[t]
        sid == sessions[me.workspace_id]
        e == [type |-> "Exception", msg |-> o]
        fails == sid = 0 \/ (HasSession(heap[sid]) /\ o = "exit_raises" /\ ~CloseCatches(e))
    IN
    /\ me.pc = "d_close"
    /\ Runnable(t)
    /\ handles' = IF sid = 0 THEN handles ELSE CloseSession(sid)
    /\ task' = [task EXCEPT ![t].pc = IF fails THEN "done" ELSE "d_del",
                            ![t].raised = IF sid = 0 THEN "KeyError"
                                          ELSE IF fails THEN e.type ELSE "",
                            ![t].close_raised = @ \cup ExitRaised(sid, o)]
    /\ current' = IF fails THEN t ELSE Holder(t, "d_del")
    /\ UNCHANGED <<last, LLM_SANDBOX_AVAILABLE, now, ticks, sessions, heap,
                   cleanup_task, reapers>>

\* variants: the record is closed and kept; the whole registry is emptied
NotDeleted(workspace_id) == sessions
DeletedAll(workspace_id) == [w \in Workspaces |-> 0]

\* the registry after `del self.sessions[workspace_id]`, lines 96 and 219
Deleted(workspace_id) == [sessions EXCEPT ![workspace_id] = 0]

\* the session objects once the registry is `registry`: an object that neither
\* the registry nor a task's local `ws` refers to is garbage, its timestamps gone
Reclaim(registry) ==
    [sid \in DOMAIN heap |->
        IF (\E w \in Workspaces : registry[w] = sid) \/ (\E u \in Tasks : task[u].ws = sid)
        THEN heap[sid]
        ELSE [heap[sid] EXCEPT !.created_at = 0, !.last_used = 0]]

\* line 219
DestroyDel(t) ==
    LET me == task[t] IN
    /\ me.pc = "d_del"
    /\ Runnable(t)
    /\ sessions' = Deleted(me.workspace_id)
    /\ heap' = Reclaim(sessions')
    /\ task' = [task EXCEPT ![t].pc = "done",
                            ![t].raised = IF sessions[me.workspace_id] = 0
                                          THEN "KeyError" ELSE ""]
    /\ current' = Holder(t, "done")
    /\ last' = [last EXCEPT ![me.workspace_id] =
                  Removed("destroy_session", sessions[me.workspace_id])]
    /\ UNCHANGED <<LLM_SANDBOX_AVAILABLE, now, ticks, handles, cleanup_task, reapers>>

\* start, lines 67-70: a new task for _cleanup_loop, which runs up to its first
\* sleep (line 86)
Start(t) ==
    /\ task[t].pc = "start"
    /\ Runnable(t)
    /\ reapers' = Append(reapers, [pc |-> "sleeping", wake |-> now + CLEANUP_INTERVAL,
                                   cancel |-> FALSE, expired |-> {}, cur |-> "",
                                   due |-> {}, close_raised |-> {},
                                   stopped |-> FALSE])
    /\ cleanup_task' = Len(reapers) + 1
    /\ task' = [task EXCEPT ![t].pc = "done"]
    /\ current' = Holder(t, "done")
    /\ UNCHANGED <<last, LLM_SANDBOX_AVAILABLE, now, ticks, sessions, heap, handles>>

\* variant: stop clears the registry without closing what is in it
ValuesNone(registry) == {}

\* `list(self.sessions.values())`, line 77
Values(registry) == {registry[w] : w \in {x \in Workspaces : registry[x] # 0}}

\* stop, lines 74-77: cancel the task _cleanup_task names, then take the list of
\* the registered session objects
Stop(t) ==
    LET todo == Values(sessions)
        next == IF todo = {} THEN "s_clear" ELSE "s_close"
        held == {heap[sessions[w]].session :
                    w \in {x \in Workspaces : sessions[x] # 0 /\ HasSession(heap[sessions[x]])}}
    IN
    /\ task[t].pc = "stop"
    /\ Runnable(t)
    /\ reapers' = [r \in 1..Len(reapers) |->
                     [reapers[r] EXCEPT
                        !.cancel = IF r = cleanup_task /\ reapers[r].pc \notin {"cancelled", "crashed"}
                                   THEN TRUE ELSE @,
                        \* history: a stop has been called since this loop was started
                        !.stopped = TRUE]]
    /\ task' = [task EXCEPT ![t].pc = next, ![t].todo = todo, ![t].held = held]
    /\ current' = Holder(t, next)
    /\ UNCHANGED <<last, LLM_SANDBOX_AVAILABLE, now, ticks, sessions, heap, handles,
                   cleanup_task>>

\* line 78, one session object of the list
StopClose(t, sid, o) ==
    LET me == task[t]
        e == [type |-> "Exception", msg |-> o]
        fails == HasSession(heap[sid]) /\ o = "exit_raises" /\ ~CloseCatches(e)
        next == IF fails THEN "done"
                ELSE IF me.todo = {sid} THEN "s_clear" ELSE "s_close"
    IN
    /\ me.pc = "s_close"
    /\ Runnable(t)
    /\ sid \in me.todo
    /\ handles' = CloseSession(sid)
    /\ task' = [task EXCEPT ![t].pc = next, ![t].todo = me.todo \ {sid},
                            ![t].raised = IF fails THEN e.type ELSE "",
                            ![t].close_raised = @ \cup ExitRaised(sid, o)]
    /\ current' = IF fails THEN t ELSE Holder(t, next)
    /\ UNCHANGED <<last, LLM_SANDBOX_AVAILABLE, now, ticks, sessions, heap,
                   cleanup_task, reapers>>

\* line 80
StopClear(t) ==
    /\ task[t].pc = "s_clear"
    /\ Runnable(t)
    /\ sessions' = [w \in Workspaces |-> 0]
    /\ heap' = Reclaim(sessions')
    /\ task' = [task EXCEPT ![t].pc = "done"]
    /\ current' = Holder(t, "done")
    /\ last' = [w \in Workspaces |->
                  IF sessions[w] # 0 THEN Removed("stop", sessions[w]) ELSE last[w]]
    /\ UNCHANGED <<LLM_SANDBOX_AVAILABLE, now, ticks, handles, cleanup_task, reapers>>

\* the handler returns to the HTTP layer (lines 259, 266), which answers
Respond(t) ==
    /\ task[t].pc = "done"
    /\ Runnable(t)
    /\ task' = [task EXCEPT ![t] = BlankTask("finished")]
    /\ current' = 0
    /\ UNCHANGED <<last, LLM_SANDBOX_AVAILABLE, now, ticks, sessions, heap, handles,
                   cleanup_task, reapers>>

----------------------------------------------------------------------------
(* The reaper, _cleanup_loop, lines 83-96 *)

\* lines 88-91
Expired == {w \in Workspaces : InSessions(w) /\ is_expired(heap[sessions[w]])}

\* variant: the reaper on a thread of its own
ReaperOnThread(r) == TRUE

\* line 69 makes the loop a task of the event loop that runs the handlers: it
\* resumes from its sleep only when no other task holds the loop
ReaperScheduled(r) == current = 0

\* the sessions idle for more than the threshold, as objects
Overdue ==
    {sessions[w] : w \in {x \in Workspaces :
                              sessions[x] # 0
                              /\ now - heap[sessions[x]].last_used > IDLE_TIMEOUT}}

\* the sleep of line 86 is over: the scan of lines 88-91; with nothing expired
\* the loop is back at the sleep
ReaperWake(r) ==
    LET me == reapers[r] IN
    /\ ReaperScheduled(r)
    /\ me.pc = "sleeping"
    /\ ~me.cancel
    /\ now >= me.wake
    /\ IF Expired = {}
       THEN /\ reapers' = [reapers EXCEPT ![r].wake = now + CLEANUP_INTERVAL,
                                         ![r].due = Overdue]
            /\ current' = current
       ELSE /\ reapers' = [reapers EXCEPT ![r].pc = "r_close", ![r].expired = Expired,
                                         ![r].due = Overdue]
            /\ current' = -r
    /\ UNCHANGED <<last, LLM_SANDBOX_AVAILABLE, now, ticks, sessions, heap, handles,
                   cleanup_task, task>>

\* line 95, the next workspace id of the list
ReaperClose(r, w, o) ==
    LET me == reapers[r]
        sid == sessions[w]
        e == [type |-> "Exception", msg |-> o]
        fails == sid = 0 \/ (HasSession(heap[sid]) /\ o = "exit_raises" /\ ~CloseCatches(e))
    IN
    /\ current = -r
    /\ me.pc = "r_close"
    /\ w \in me.expired
    /\ handles' = IF sid = 0 THEN handles ELSE CloseSession(sid)
    /\ reapers' = [reapers EXCEPT ![r].pc = IF fails THEN "crashed" ELSE "r_del",
                                  ![r].cur = w,
                                  ![r].close_raised = @ \cup ExitRaised(sid, o)]
    /\ current' = IF fails THEN 0 ELSE -r
    /\ UNCHANGED <<last, LLM_SANDBOX_AVAILABLE, now, ticks, sessions, heap,
                   cleanup_task, task>>

\* line 96, and back to the sleep of line 86 after the last one
ReaperDel(r) ==
    LET me == reapers[r]
        rest == me.expired \ {me.cur}
        fails == sessions[me.cur] = 0
    IN
    /\ current = -r
    /\ me.pc = "r_del"
    /\ sessions' = Deleted(me.cur)
    /\ reapers' = [reapers EXCEPT ![r] =
                     [me EXCEPT !.pc = IF fails THEN "crashed"
                                       ELSE IF rest = {} THEN "sleeping" ELSE "r_close",
                                !.expired = rest, !.cur = "",
                                !.wake = IF rest = {} THEN now + CLEANUP_INTERVAL ELSE @]]
    /\ current' = IF fails \/ rest = {} THEN 0 ELSE -r
    /\ heap' = Reclaim(sessions')
    /\ last' = [last EXCEPT ![me.cur] = Removed("evict", sessions[me.cur])]
    /\ UNCHANGED <<LLM_SANDBOX_AVAILABLE, now, ticks, handles, cleanup_task, task>>

\* Task.cancel() of line 75 reaches the loop at its sleep: CancelledError ends it
ReaperCancelled(r) ==
    /\ current = 0
    /\ reapers[r].pc = "sleeping"
    /\ reapers[r].cancel
    /\ reapers' = [reapers EXCEPT ![r].pc = "cancelled"]
    /\ UNCHANGED <<last, LLM_SANDBOX_AVAILABLE, now, ticks, sessions, heap, handles,
                   cleanup_task, task, current>>

----------------------------------------------------------------------------
(* The clock *)

\* time passes while the loop waits for work and while a task blocks in
\* session.run or subprocess.run
Blocking(label) == label \in {"run", "fallback"}

Tick(d) ==
    /\ ticks < MaxTicks
    /\ current = 0 \/ (current > 0 /\ Blocking(task[current].pc))
    /\ now' = now + d
    /\ ticks' = ticks + 1
    /\ UNCHANGED <<last, LLM_SANDBOX_AVAILABLE, sessions, heap, handles, cleanup_task,
                   reapers, task, current>>

----------------------------------------------------------------------------
(* The manager after __init__ (lines 63-65), no request yet *)

Init ==
    /\ LLM_SANDBOX_AVAILABLE \in BOOLEAN
    /\ now = 0
    /\ ticks = 0
    /\ sessions = [w \in Workspaces |-> 0]
    /\ heap = <<>>
    /\ handles = <<>>
    /\ cleanup_task = 0
    /\ reapers = <<>>
    /\ task = [t \in Tasks |-> BlankTask("idle")]
    /\ last = [w \in Workspaces |-> NoOp]
    /\ current = 0

Next ==
    \/ \E t \in Tasks, op \in Ops, w \in Workspaces \cup {""} : Spawn(t, op, w)
    \/ \E t \in Tasks : GetOrCreateLookup(t)
    \/ \E t \in Tasks, o \in ProvisionOutcomes : Provision(t, o)
    \/ \E t \in Tasks, o \in WarmupOutcomes : Warmup(t, o)
    \/ \E t \in Tasks : Register(t)
    \/ \E t \in Tasks, in \in Inputs : Route(t, in.code, in.timeout)
    \/ \E t \in Tasks, in \in Inputs :
         \E o \in SubprocessOutcomes(in.code, in.timeout) : FallbackReturn(t, o)
    \/ \E t \in Tasks, in \in Inputs :
         \E o \in SandboxOutcomes(in.code, in.timeout) : SandboxReturn(t, o)
    \/ \E t \in Tasks : Destroy(t)
    \/ \E t \in Tasks, o \in CloseOutcomes : DestroyClose(t, o)
    \/ \E t \in Tasks : DestroyDel(t)
    \/ \E t \in Tasks : Start(t)
    \/ \E t \in Tasks : Stop(t)
    \/ \E t \in Tasks, sid \in 1..Len(heap), o \in CloseOutcomes : StopClose(t, sid, o)
    \/ \E t \in Tasks : StopClear(t)
    \/ \E t \in Tasks : Respond(t)
    \/ \E r \in 1..Len(reapers) : ReaperWake(r)
    \/ \E r \in 1..Len(reapers), w \in Workspaces, o \in CloseOutcomes : ReaperClose(r, w, o)
    \/ \E r \in 1..Len(reapers) : ReaperDel(r)
    \/ \E r \in 1..Len(reapers) : ReaperCancelled(r)
    \/ \E d \in ClockSteps : Tick(d)

Spec == Init /\ [][Next]_vars

----------------------------------------------------------------------------
(* Properties *)

Executing == {t \in Tasks : task[t].op = "execute"}

\* an execute call that has resolved its session (line 151 has returned)
Resolved == {t \in Executing : task[t].pc \in {"route", "run", "fallback", "done"}}

\* a result with all four fields populated
WellFormed(r) ==
    /\ r.success \in BOOLEAN
    /\ r.stdout.type = "str"
    /\ r.stderr.type = "str"
    /\ \A k \in 1..Len(r.artifacts) : r.artifacts[k].type = "image"

\* the next statement of request task t
StepOf(t) ==
    \/ GetOrCreateLookup(t)
    \/ \E o \in ProvisionOutcomes : Provision(t, o)
    \/ \E o \in WarmupOutcomes : Warmup(t, o)
    \/ Register(t)
    \/ \E in \in Inputs : Route(t, in.code, in.timeout)
    \/ \E in \in Inputs :
         \E o \in SubprocessOutcomes(in.code, in.timeout) : FallbackReturn(t, o)
    \/ \E in \in Inputs :
         \E o \in SandboxOutcomes(in.code, in.timeout) : SandboxReturn(t, o)
    \/ Respond(t)

\* C1: an execute call never ends in an exception, and what it returns has a
\* success flag, two strings and a list of artifacts, whatever failed on the
\* way: provisioning, the warm-up, the run (error or timeout), the subprocess.
C1_ExecuteAlwaysReturnsResult ==
    \A t \in Executing :
        /\ task[t].raised = ""
        /\ Runnable(t) => ENABLED StepOf(t)
        /\ task[t].pc = "done" =>
             /\ WellFormed(task[t].result)
             /\ task[t].timed_out => ~task[t].result.success

\* provisioning failed, and then the subprocess could not be spawned
C1_Witness ==
    \E t \in Executing :
        /\ task[t].pc = "done"
        /\ task[t].prov_failed
        /\ task[t].path = "fallback"
        /\ task[t].result.stderr = PyStr("No such file or directory")

\* the calls that are between constructing a session object for w and
\* registering it
Creating(w) ==
    {t \in Tasks : task[t].workspace_id = w
                   /\ task[t].pc \in {"provision", "warmup", "register"}}

\* C2: per workspace id at most one call is creating a session, and only while
\* none is registered; a session object that holds an open sandbox is the one
\* registered for its id or the one being created: no second sandbox is made
\* and then overwritten or orphaned.
C2_ExclusiveCreation ==
    \A w \in Workspaces :
        /\ Cardinality(Creating(w)) <= 1
        /\ Creating(w) # {} => sessions[w] = 0
        /\ \A sid \in 1..Len(heap) :
             (/\ heap[sid].workspace_id = w
              /\ heap[sid].session # 0
              /\ handles[heap[sid].session].state = "open")
             => \/ sessions[w] = sid
                \/ \E t \in Creating(w) : task[t].ws = sid

\* a request made while the id was unseen finds the session another request
\* created in the meantime, sandbox included
C2_Witness ==
    \E t \in Resolved :
        /\ task[t].pc = "route"
        /\ task[t].unseen
        /\ task[t].found # 0
        /\ task[t].found_session # 0
        /\ ~task[t].provisioned

\* C3: a sandbox runs the code of at most one call at a time, it is the code of
\* the call waiting for it, and the output a call returns is its own code's.
C3_RunsDoNotOverlap ==
    /\ \A h \in 1..Len(handles) : Cardinality(handles[h].busy) <= 1
    /\ \A t \in Executing :
         /\ task[t].pc = "run" =>
              /\ handles[task[t].handle].busy = {t}
              /\ handles[task[t].handle].code = task[t].code
         /\ (task[t].pc = "done" /\ task[t].path = "sandbox" /\ task[t].result.success)
            => task[t].result.stdout.val \in {"", Output(task[t].code)}

\* a call has its output while another call for the same id waits
C3_Witness ==
    \E t \in Executing, u \in Executing :
        /\ t # u
        /\ task[t].pc = "done" /\ task[t].path = "sandbox" /\ task[t].result.success
        /\ task[t].result.stdout.val = Output(task[t].code)
        /\ task[u].pc = "goc"
        /\ task[u].workspace_id = task[t].workspace_id

\* the request tasks that are in the middle of a run, a destroy or the shutdown
\* drain on session object sid
TasksOn(sid) ==
    {t \in Tasks :
        \/ task[t].pc = "run" /\ task[t].ws = sid
        \/ task[t].pc \in {"d_close", "d_del"} /\ sessions[task[t].workspace_id] = sid
        \/ task[t].pc \in {"s_close", "s_clear"} /\ \E w \in Workspaces : sessions[w] = sid}

\* the reapers in the middle of evicting session object sid
ReapersOn(sid) ==
    {r \in 1..Len(reapers) :
        /\ reapers[r].pc \in {"r_close", "r_del"}
        /\ \E w \in reapers[r].expired : sessions[w] = sid}

\* C4: at most one of a run, an eviction, a destroy_session and the shutdown
\* drain is at work on a session at a time, and the sandbox of a run in flight
\* is open.
C4_RunAndTeardownExclusive ==
    /\ \A sid \in 1..Len(heap) :
         Cardinality(TasksOn(sid)) + Cardinality(ReapersOn(sid)) <= 1
    /\ \A t \in Executing :
         task[t].pc = "run" => handles[task[t].handle].state = "open"

\* a run is in flight on a session that has become idle for too long, and a
\* reaper's sleep is over
C4_Witness ==
    \E t \in Executing, r \in 1..Len(reapers) :
        /\ task[t].pc = "run"
        /\ now - heap[task[t].ws].last_used > IDLE_TIMEOUT
        /\ reapers[r].pc = "sleeping" /\ ~reapers[r].cancel
        /\ now >= reapers[r].wake

\* C5: when a reaper's tick is over, every session that had been idle for more
\* than IDLE_TIMEOUT at the scan of that tick is out of the registry and its
\* sandbox, if it had one, has been closed.
C5_TickEvictsExpired ==
    \A r \in 1..Len(reapers) :
        reapers[r].pc \in {"sleeping", "cancelled"} =>
            \A sid \in reapers[r].due :
                /\ \A w \in Workspaces : sessions[w] # sid
                /\ heap[sid].session # 0 => handles[heap[sid].session].state = "closed"

\* one tick has evicted the sessions of both workspace ids, one with a sandbox
C5_Witness ==
    \E r \in 1..Len(reapers) :
        /\ reapers[r].pc = "sleeping"
        /\ Cardinality(reapers[r].due) = 2
        /\ \E sid \in reapers[r].due : heap[sid].session # 0

\* C6: an execute call that follows an execute call for the same id, with no
\* removal in between, works on the same session object and the same sandbox
\* and provisions nothing.
C6_ReuseBetweenExecutes ==
    \A t \in Resolved :
        task[t].prev.op = "execute" =>
            /\ task[t].ws = task[t].prev.sid
            /\ heap[task[t].ws].session = task[t].prev.session
            /\ ~task[t].provisioned
            /\ task[t].pc = "run" => task[t].handle = task[t].prev.session

\* the second call runs on the sandbox the first one ran on
C6_Witness ==
    \E t \in Resolved :
        /\ task[t].pc = "run"
        /\ task[t].prev.op = "execute"
        /\ task[t].prev.session # 0

\* C7: no run is issued on a sandbox that has been closed; the execute call
\* that follows a destroy_session or an eviction of its id works on a session
\* object created by that call, and the sandbox of that session, when it has
\* one, was provisioned by that call, is none of the earlier ones and is open.
C7_ClosedHandleNeverUsed ==
    /\ \A t \in Executing :
         task[t].pc = "run" =>
            /\ ~task[t].handle_closed
            /\ handles[task[t].handle].state = "open"
            /\ handles[task[t].handle].exits = 0
    /\ \A t \in Resolved :
         task[t].prev.op \in {"destroy_session", "evict"} =>
            /\ task[t].found = 0
            /\ task[t].ws # task[t].prev.sid
            /\ \A u \in Tasks \ {t} : task[u].ws # task[t].ws
            /\ HasSession(heap[task[t].ws]) =>
                 /\ task[t].provisioned
                 /\ heap[task[t].ws].session # task[t].prev.session
                 /\ handles[heap[task[t].ws].session].exits = 0

\* a run after destroy_session closed the earlier sandbox of the id
C7_Witness ==
    \E t \in Executing :
        /\ task[t].pc = "run"
        /\ task[t].prev.op = "destroy_session"
        /\ task[t].prev.session # 0
        /\ handles[task[t].prev.session].state = "closed"

\* what holds of the destroy_session calls in every state
DestroyPost ==
    /\ \A t \in Tasks :
         task[t].op = "destroy_session" =>
            /\ task[t].raised = ""
            /\ task[t].pc = "done" => sessions[task[t].workspace_id] = 0
    /\ \A h \in 1..Len(handles) : handles[h].exits <= 1

\* C8: destroy_session of an id that is not registered is one step that raises
\* nothing and leaves the registry, the session objects and the sandboxes as
\* they are; no destroy_session raises, each leaves its id unregistered, and
\* no sandbox is closed twice. (A second call in a row finds the id absent.)
C8_DestroyIdempotent ==
    [][/\ \A t \in Tasks :
            (/\ task[t].pc = "destroy"
             /\ sessions[task[t].workspace_id] = 0
             /\ task'[t] # task[t])
            => /\ task'[t].pc = "done"
               /\ task'[t].raised = ""
               /\ UNCHANGED <<sessions, heap, handles>>
       /\ DestroyPost']_vars

\* the second of two destroy_session calls in a row, the first of which
\* removed a session with a sandbox
C8_Witness ==
    \E t \in Tasks :
        /\ task[t].op = "destroy_session"
        /\ task[t].pc = "done"
        /\ task[t].found = 0
        /\ task[t].prev.op = "destroy_session"
        /\ task[t].prev.session # 0

\* C9: the call whose provisioning failed has its session registered, without
\* sandbox; a call that finds a registered session without sandbox works on
\* that session, through the fallback, and attempts no provisioning.
C9_DegradedSessionKept ==
    \A t \in Resolved :
        /\ task[t].prov_failed =>
             /\ sessions[task[t].workspace_id] = task[t].ws
             /\ ~HasSession(heap[task[t].ws])
             /\ task[t].path # "sandbox"
        /\ (task[t].found # 0 /\ task[t].found_session = 0) =>
             /\ task[t].ws = task[t].found
             /\ ~task[t].provisioned
             /\ task[t].path # "sandbox"

\* a later call on the session a failed provisioning left (no sandbox was
\* ever entered), with the sandbox library installed
C9_Witness ==
    \E t \in Resolved :
        /\ LLM_SANDBOX_AVAILABLE
        /\ handles = <<>>
        /\ task[t].pc = "fallback"
        /\ task[t].prev.op = "execute"
        /\ task[t].found # 0 /\ task[t].found_session = 0

\* C10: an execute call whose run exceeded the timeout returns success = false
\* and "Execution timed out after <timeout> seconds" as stderr, on the sandbox
\* path and on the fallback path.
C10_TimeoutMessageFixed ==
    \A t \in Executing :
        (task[t].pc = "done" /\ task[t].timed_out) =>
            /\ ~task[t].result.success
            /\ task[t].result.stderr = PyStr(TimedOutMessage(task[t].timeout))

\* C11: a stop call raises nothing, with or without a start before it, and when
\* it returns the registry is empty and every sandbox that a registered session
\* held when the call began has been closed.
C11_StopDrainsRegistry ==
    \A t \in Tasks :
        task[t].op = "stop" =>
            /\ task[t].raised = ""
            /\ task[t].pc = "done" =>
                 /\ \A w \in Workspaces : sessions[w] = 0
                 /\ \A h \in task[t].held :
                      handles[h].state = "closed" /\ handles[h].exits >= 1

\* a stop without any start has returned after draining two sandboxes
C11_Witness ==
    \E t \in Tasks :
        /\ task[t].op = "stop"
        /\ task[t].pc = "done"
        /\ cleanup_task = 0 /\ reapers = <<>>
        /\ Cardinality(task[t].held) = 2

\* C12: an execute call runs its code in the subprocess exactly when the session
\* it resolved has no sandbox; with a sandbox the code goes to that sandbox,
\* also when the run before it on that sandbox raised or timed out.
C12_FallbackOnlyWithoutHandle ==
    \A t \in Executing :
        task[t].pc \in {"run", "fallback", "done"} =>
            /\ task[t].path \in {"sandbox", "fallback"}
            /\ task[t].path = "fallback" <=> heap[task[t].ws].session = 0
            /\ task[t].path = "sandbox" => task[t].handle = heap[task[t].ws].session
            /\ task[t].pc = "fallback" <=> (task[t].path = "fallback" /\ task[t].pc # "done")

\* the code is in the sandbox whose run before this one raised
C12_Witness ==
    \E t \in Executing :
        /\ task[t].pc = "run"
        /\ task[t].prev.op = "execute"
        /\ task[t].prev.failed
        /\ task[t].handle = task[t].prev.session

\* the session objects the registry holds
Registered == {sessions[w] : w \in {x \in Workspaces : sessions[x] # 0}}

\* C13: when closing a sandbox raises, destroy_session and stop raise nothing
\* and end with the session out of the registry, and the reaper does not die:
\* it deletes that session and goes on to the other sessions of its scan, all
\* of which are out of the registry when it is back at its sleep.
C13_CloseFailureAbsorbed ==
    /\ \A t \in Tasks :
         task[t].close_raised # {} =>
            /\ task[t].raised = ""
            /\ task[t].op \in {"destroy_session", "stop"}
            /\ task[t].pc \in {"d_del", "s_close", "s_clear", "done"}
            /\ task[t].pc = "done" => task[t].close_raised \cap Registered = {}
    /\ \A r \in 1..Len(reapers) :
         reapers[r].close_raised # {} =>
            /\ reapers[r].pc \in {"r_del", "r_close", "sleeping", "cancelled"}
            /\ reapers[r].pc = "r_close" =>
                 /\ reapers[r].expired # {}
                 /\ reapers[r].close_raised \cap Registered = {}
            /\ reapers[r].pc \in {"sleeping", "cancelled"} =>
                 reapers[r].due \cap Registered = {}

\* a reaper is back at its sleep after a scan of two sessions, the close of
\* each of which raised
C13_Witness ==
    \E r \in 1..Len(reapers) :
        /\ reapers[r].pc = "sleeping"
        /\ Cardinality(reapers[r].close_raised) = 2
        /\ reapers[r].due = reapers[r].close_raised

\* C14: a call whose sandbox was entered and whose warm-up then failed (the
\* import of a library and its installation both raised) has its session
\* registered with that sandbox: the session is not left without one.
C14_WarmupFailureKeepsHandle ==
    \A t \in Resolved :
        (task[t].provisioned /\ ~task[t].prov_failed /\ task[t].warm_failed) =>
            /\ sessions[task[t].workspace_id] = task[t].ws
            /\ HasSession(heap[task[t].ws])
            /\ task[t].path # "fallback"

\* C15: when an execute call that has run its code in the sandbox of a session
\* returns, the session's last_used is not earlier than the time at which the
\* run ended.
C15_TouchedOnCompletion ==
    \A t \in Executing :
        (task[t].pc = "done" /\ task[t].path = "sandbox") =>
            heap[task[t].ws].last_used >= task[t].completed

\* C16: a reaper loop takes no step of its scan or of an eviction once stop has
\* been called after the start that created it; all it can still do is end.
C16_NoScanAfterStop ==
    [][\A r \in 1..Len(reapers) :
          reapers[r].stopped =>
             \/ reapers'[r] = reapers[r]
             \/ reapers'[r] = [reapers[r] EXCEPT !.pc = "cancelled"]]_vars

\* what the registry holds for workspace id w: the session object, its sandbox,
\* whether the sandbox is open, and last_used
EntryOf(w) ==
    IF sessions[w] = 0 THEN <<0, 0, "", 0>>
    ELSE LET ws == heap[sessions[w]] IN
         <<sessions[w], ws.session,
           IF ws.session = 0 THEN "" ELSE handles[ws.session].state, ws.last_used>>

\* C17: no step of an execute call (its get_or_create_session included) or of
\* a destroy_session call for one workspace id changes what the registry holds
\* for another id: the entry, its sandbox, whether that is open, its last_used.
C17_WorkspacesIndependent ==
    [][\A t \in Tasks :
          LET call == IF task[t].op # "" THEN task[t] ELSE task'[t] IN
          (task'[t] # task[t] /\ call.op \in {"execute", "destroy_session"}) =>
              \A w \in Workspaces \ {call.workspace_id} : EntryOf(w)' = EntryOf(w)]_vars

\* destroy_session has removed the session of one id while the other id has a
\* session with an open sandbox
C17_Witness ==
    \E t \in Tasks :
        /\ task[t].op = "destroy_session"
        /\ task[t].pc = "done"
        /\ task[t].found # 0
        /\ \E w \in Workspaces \ {task[t].workspace_id} :
             /\ sessions[w] # 0
             /\ HasSession(heap[sessions[w]])
             /\ handles[heap[sessions[w]].session].state = "open"

\* the session objects that hold sandbox h
Holders(h) == {sid \in 1..Len(heap) : heap[sid].session = h}

\* C18: a sandbox that has been entered and not closed is held by exactly one
\* session object, and that session is in the registry or is the one a call is
\* creating and about to register: no path leaves an open sandbox behind.
C18_NoHandleLeak ==
    \A h \in 1..Len(handles) :
        handles[h].state = "open" =>
            /\ Cardinality(Holders(h)) = 1
            /\ \A sid \in Holders(h) :
                 \/ sid \in Registered
                 \/ \E t \in Tasks : task[t].ws = sid /\ task[t].pc \in {"warmup", "register"}

\* C19: every session a reaper is closing or about to delete is registered and
\* has been idle for more than IDLE_TIMEOUT at that moment, as it was at the
\* scan: between the scan and the deletion no call touches it.
C19_OnlyIdleEvicted ==
    \A r \in 1..Len(reapers) :
        reapers[r].pc \in {"r_close", "r_del"} =>
            \A w \in reapers[r].expired :
                /\ sessions[w] # 0
                /\ sessions[w] \in reapers[r].due
                /\ now - heap[sessions[w]].last_used > IDLE_TIMEOUT

\* a reaper is about to delete a session for whose id a call is waiting that
\* will touch what it finds
C19_Witness ==
    \E r \in 1..Len(reapers), t \in Executing :
        /\ reapers[r].pc = "r_del"
        /\ task[t].pc = "goc"
        /\ task[t].workspace_id = reapers[r].cur
        /\ now - heap[sessions[reapers[r].cur]].last_used > IDLE_TIMEOUT

\* the reaper loops that will take another turn
Running ==
    {r \in 1..Len(reapers) :
        reapers[r].pc \notin {"cancelled", "crashed"} /\ ~reapers[r].cancel}

\* C20: whatever start and stop calls have been made, at most one reaper loop
\* is running, and none that was started before a stop.
C20_AtMostOneReaper ==
    /\ Cardinality(Running) <= 1
    /\ \A r \in Running : ~reapers[r].stopped

====
